---- MODULE Spec2Model ----
(***************************************************************************)
(* arff_to_megam.py: conversion of an ARFF file to MegaM format.           *)
(*                                                                         *)
(* Python strings are sequences of one-character strings, Python lists are *)
(* sequences.  Python indices (classindex, the instance index i, the       *)
(* attribute index) keep their 0-based values; the sequence that holds the *)
(* element is read at index + 1.  A line of the input is held as the list  *)
(* of fields split_with_quotes returns for it (the input holds no quote    *)
(* and no escape character, on which csv.reader is a plain split).         *)
(***************************************************************************)
EXTENDS Integers, Sequences, FiniteSets, TLC

VARIABLES
    pc,             \* position of the script: the statement group that runs next,
                    \* or the one that raised once error is set
    argv,           \* the command line: raw option values before argparse's type functions
    args,           \* the global args (line 15, 136)
    infile,         \* args.infile: the lines not yet read
    data_seen,      \* history: the header loop left through its break at @data
    attr_list,      \* line 143
    relation,       \* line 144
    nominal_dict,   \* line 170
    class_list,     \* line 171
    class_dict,     \* line 172
    dev_sets, test_sets, train_sets,    \* lines 175-177
    inst_str_list,  \* line 180
    i,              \* the index of the partition loop (line 188)
    cur,            \* the family of sets being written: "train", "dev", "test"
    set_index,      \* the position in that family of the set being written (0-based)
    todo,           \* the members of that set process_set has not reached yet
    out,            \* standard output, one entry per print of a record or marker
    err,            \* standard error, one entry per verbose line
    error           \* the exception that ended the run, or NoError

vars == <<pc, argv, args, infile, data_seen, attr_list, relation, nominal_dict,
          class_list, class_dict, dev_sets, test_sets, train_sets, inst_str_list,
          i, cur, set_index, todo, out, err, error>>

----------------------------------------------------------------------------
(* Bounds of the checked inputs. *)

\* longest range string given to --features
MaxLen == 3
\* most data rows in the files of the partition runs
MaxRowsPart == 5
\* largest --dev, --test and --max of the partition runs
MaxCapPart == 2
\* most data rows in the files of the whole runs
MaxRows == 4
\* largest --dev, --test and --max of the whole runs
MaxCap == 1
\* most @attribute lines in the files of the header runs
MaxAttrs == 3
\* most data rows in the files of the feature runs
MaxRowsEmit == 1

----------------------------------------------------------------------------
(* Strings. *)

NoError == "none"

Range(s) == {s[k] : k \in 1..Len(s)}

DigitChars == {"0", "1", "2", "3", "4", "5", "6", "7", "8", "9"}

DigitVal(c) ==
    CASE c = "0" -> 0 [] c = "1" -> 1 [] c = "2" -> 2 [] c = "3" -> 3 [] c = "4" -> 4
      [] c = "5" -> 5 [] c = "6" -> 6 [] c = "7" -> 7 [] c = "8" -> 8 [] c = "9" -> 9

DigitChar(d) ==
    CASE d = 0 -> "0" [] d = 1 -> "1" [] d = 2 -> "2" [] d = 3 -> "3" [] d = 4 -> "4"
      [] d = 5 -> "5" [] d = 6 -> "6" [] d = 7 -> "7" [] d = 8 -> "8" [] d = 9 -> "9"

\* str(n) of a non-negative integer
RECURSIVE IntToStr(_)
IntToStr(n) == IF n < 10 THEN <<DigitChar(n)>> ELSE Append(IntToStr(n \div 10), DigitChar(n % 10))

\* \d+
IsDigits(s) == Len(s) > 0 /\ \A k \in 1..Len(s) : s[k] \in DigitChars

\* int(s) of a string of digits
RECURSIVE IntOf(_)
IntOf(s) == IF Len(s) = 0 THEN 0 ELSE 10 * IntOf(SubSeq(s, 1, Len(s) - 1)) + DigitVal(s[Len(s)])

\* s.count(c)
Count(s, c) == Cardinality({k \in 1..Len(s) : s[k] = c})

\* s.split(d): the pieces between the occurrences of d; never empty
RECURSIVE SplitFrom(_, _, _, _, _)
SplitFrom(s, d, k, piece, acc) ==
    IF k > Len(s) THEN Append(acc, piece)
    ELSE IF s[k] = d THEN SplitFrom(s, d, k + 1, <<>>, Append(acc, piece))
    ELSE SplitFrom(s, d, k + 1, Append(piece, s[k]), acc)

Split(s, d) == SplitFrom(s, d, 1, <<>>, <<>>)

\* d.join(parts)
RECURSIVE Join(_, _)
Join(parts, d) ==
    IF Len(parts) = 0 THEN <<>>
    ELSE IF Len(parts) = 1 THEN parts[1]
    ELSE parts[1] \o <<d>> \o Join(Tail(parts), d)

\* s.strip(chars), chars a set of characters
RECURSIVE LStrip(_, _)
LStrip(s, chars) == IF Len(s) > 0 /\ s[1] \in chars THEN LStrip(Tail(s), chars) ELSE s

RECURSIVE RStrip(_, _)
RStrip(s, chars) ==
    IF Len(s) > 0 /\ s[Len(s)] \in chars THEN RStrip(SubSeq(s, 1, Len(s) - 1), chars) ELSE s

Strip(s, chars) == RStrip(LStrip(s, chars), chars)

Whitespace == {" "}

LowerChar(c) ==
    CASE c = "A" -> "a" [] c = "B" -> "b" [] c = "C" -> "c" [] c = "D" -> "d"
      [] c = "E" -> "e" [] c = "I" -> "i" [] c = "L" -> "l" [] c = "M" -> "m"
      [] c = "N" -> "n" [] c = "O" -> "o" [] c = "R" -> "r" [] c = "T" -> "t"
      [] c = "U" -> "u" [] OTHER -> c

\* s.lower()
Lower(s) == [k \in 1..Len(s) |-> LowerChar(s[k])]

\* s.replace(c, r), c one character and r a string
RECURSIVE Replace(_, _, _)
Replace(s, c, r) ==
    IF Len(s) = 0 THEN <<>>
    ELSE (IF s[1] = c THEN r ELSE <<s[1]>>) \o Replace(Tail(s), c, r)

\* list[index] in Python: a negative index counts from the end
PyIndexOk(list, index) == -Len(list) <= index /\ index < Len(list)

PyGet(list, index) == list[(IF index < 0 THEN index + Len(list) ELSE index) + 1]

\* all sequences over S of length at most n
SeqsUpTo(S, n) == UNION {[1..m -> S] : m \in 0..n}

----------------------------------------------------------------------------
(* parse_num_list *)

Ok(v) == [ok |-> TRUE, val |-> v, exc |-> NoError]
Raise(e) == [ok |-> FALSE, val |-> <<>>, exc |-> e]

\* \d+(-\d+)?
IsRangeItem(s) ==
    LET parts == Split(s, "-")
    IN  Len(parts) \in {1, 2} /\ \A k \in 1..Len(parts) : IsDigits(parts[k])

\* re.match(r'^(\d+(-\d+)?,)*\d+(-\d+)?$', num_string)
MatchesRange(num_string) ==
    LET items == Split(num_string, ",")
    IN  \A k \in 1..Len(items) : IsRangeItem(items[k])

\* range(a, b)
PyRange(a, b) == [k \in 1..(IF b > a THEN b - a ELSE 0) |-> a + k - 1]

\* int(x): ValueError on anything but digits
IntOk(s) == IsDigits(s)

\* the loop of lines 25-31, from item k on
RECURSIVE ExpandItems(_, _, _)
ExpandItems(items, k, range_list) ==
    IF k > Len(items) THEN Ok(range_list)
    ELSE LET rng == items[k]
         IN  IF Count(rng, "-") > 0
             THEN LET split_range == Split(rng, "-")
                  IN  IF \E p \in 1..Len(split_range) : ~IntOk(split_range[p])
                      THEN Raise("ValueError")
                      ELSE ExpandItems(items, k + 1,
                               range_list \o PyRange(IntOf(split_range[1]), IntOf(split_range[2]) + 1))
             ELSE IF ~IntOk(rng) THEN Raise("ValueError")
             ELSE ExpandItems(items, k + 1, Append(range_list, IntOf(rng)))

parse_num_list(num_string) ==
    IF num_string # <<>> /\ ~MatchesRange(num_string)
    THEN Raise("ArgumentTypeError")
    ELSE ExpandItems(Split(num_string, ","), 1, <<>>)

----------------------------------------------------------------------------
(* The helpers of lines 35-56. *)

\* split_with_quotes(s, delimiter) of a string without quotes: csv.reader
\* returns no field at all for the empty string
split_with_quotes(s, delimiter) == IF s = <<>> THEN <<>> ELSE Split(s, delimiter)

\* the largest 0-based position of value in nominal_list
LastPos(nominal_list, value) ==
    CHOOSE k \in 0..(Len(nominal_list) - 1) :
        /\ nominal_list[k + 1] = value
        /\ \A m \in (k + 1)..(Len(nominal_list) - 1) : nominal_list[m + 1] # value

\* num_dict[nominal_list[i]] = i for i = 0, 1, ...: a later position overwrites
nominal_to_numeric_dict(nominal_list) ==
    [value \in Range(nominal_list) |-> LastPos(nominal_list, value)]

sanitize_name(feature_name) ==
    Replace(Replace(feature_name, " ", <<"_">>), "#", <<"H", "A", "S", "H">>)

----------------------------------------------------------------------------
(* The command line (lines 112-136). *)

NotGiven == [given |-> FALSE, str |-> <<>>]
Given(s) == [given |-> TRUE, str |-> s]

\* the value argparse stores for an option of type parse_num_list: the default
\* (None or [], both empty and both false) when the option is absent
ParsedOption(opt) == IF opt.given THEN parse_num_list(opt.str) ELSE Ok(<<>>)

\* line 136: parse_args; argparse reports an exception of a type function and exits
ParseArgs ==
    /\ pc = "parse_args" /\ error = NoError
    /\ LET binary == ParsedOption(argv.binary)
           features == ParsedOption(argv.features)
           superclasses == ParsedOption(argv.superclasses)
       IN  IF binary.ok /\ features.ok /\ superclasses.ok
           THEN /\ args' = [binary |-> binary.val, doubleup |-> argv.doubleup,
                            classindex |-> argv.classindex, dev |-> argv.dev,
                            features |-> features.val, max |-> argv.max,
                            namedclasses |-> argv.namedclasses,
                            randomize |-> argv.randomize,
                            superclasses |-> superclasses.val, test |-> argv.test,
                            verbose |-> argv.verbose]
                /\ pc' = "check_classindex"
                /\ error' = error
           ELSE /\ args' = args
                /\ pc' = pc
                /\ error' = (IF ~binary.ok THEN binary.exc
                             ELSE IF ~features.ok THEN features.exc
                             ELSE superclasses.exc)
    /\ UNCHANGED <<argv, infile, data_seen, attr_list, relation, nominal_dict,
                   class_list, class_dict, dev_sets, test_sets, train_sets,
                   inst_str_list, i, cur, set_index, todo, out, err>>

\* lines 138-140
CheckClassIndex ==
    /\ pc = "check_classindex" /\ error = NoError
    /\ IF args.classindex = 0
       THEN pc' = pc /\ error' = "ArgumentTypeError"
       ELSE pc' = "header" /\ error' = error
    /\ UNCHANGED <<argv, args, infile, data_seen, attr_list, relation, nominal_dict,
                   class_list, class_dict, dev_sets, test_sets, train_sets,
                   inst_str_list, i, cur, set_index, todo, out, err>>

----------------------------------------------------------------------------
(* The ARFF header (lines 142-161). *)

S_attribute == <<"@", "a", "t", "t", "r", "i", "b", "u", "t", "e">>
S_data == <<"@", "d", "a", "t", "a">>
S_relation == <<"@", "r", "e", "l", "a", "t", "i", "o", "n">>
S_numeric == <<"n", "u", "m", "e", "r", "i", "c">>

\* line.strip() is empty: every field of the line is
IsBlank(line) == \A k \in 1..Len(line) : line[k] = <<>>

\* lines 153-154: the values of a nominal attribute
NominalValues(split_header) ==
    LET joined == Join(SubSeq(split_header, 3, Len(split_header)), " ")
        fields == split_with_quotes(Strip(joined, {"{", "}"}), ",")
    IN  [k \in 1..Len(fields) |-> Strip(fields[k], Whitespace)]

\* line 157: int(split_header[2] == 'numeric')
NumericKind(type_token) == IF type_token = S_numeric THEN 1 ELSE 0

\* lines 152-157: the entry appended for an @attribute line
AttributeEntry(split_header) ==
    IF split_header[3][1] = "{"
    THEN <<split_header[2], 2, NominalValues(split_header)>>
    ELSE <<split_header[2], NumericKind(split_header[3]), <<>>>>

\* split_header[2][0] can be read
AttributeLineOk(split_header) == Len(split_header) >= 3 /\ Len(split_header[3]) > 0

\* one pass of the loop of line 145, or its end at the end of the input
ProcessHeader ==
    /\ pc = "header" /\ error = NoError
    /\ IF infile = <<>>
       THEN /\ pc' = "shift"
            /\ UNCHANGED <<infile, data_seen, attr_list, relation, error>>
       ELSE LET line == Head(infile)
                split_header == line
                row_type == Lower(split_header[1])
            IN  /\ infile' = Tail(infile)
                /\ IF IsBlank(line)
                   THEN UNCHANGED <<pc, data_seen, attr_list, relation, error>>
                   ELSE IF row_type = S_attribute
                   THEN IF AttributeLineOk(split_header)
                        THEN /\ attr_list' = Append(attr_list, AttributeEntry(split_header))
                             /\ UNCHANGED <<pc, data_seen, relation, error>>
                        ELSE /\ pc' = pc
                             /\ error' = "IndexError"
                             /\ UNCHANGED <<data_seen, attr_list, relation>>
                   ELSE IF row_type = S_data
                   THEN /\ pc' = "shift"
                        /\ data_seen' = TRUE
                        /\ UNCHANGED <<attr_list, relation, error>>
                   ELSE IF row_type = S_relation
                   THEN IF Len(split_header) >= 2
                        THEN /\ relation' = split_header[2]
                             /\ UNCHANGED <<pc, data_seen, attr_list, error>>
                        ELSE /\ pc' = pc
                             /\ error' = "IndexError"
                             /\ UNCHANGED <<data_seen, attr_list, relation>>
                   ELSE UNCHANGED <<pc, data_seen, attr_list, relation, error>>
    /\ UNCHANGED <<argv, args, nominal_dict, class_list, class_dict, dev_sets,
                   test_sets, train_sets, inst_str_list, i, cur, set_index, todo,
                   out, err>>

----------------------------------------------------------------------------
(* The class index and the nominal dictionaries (lines 163-172). *)

\* lines 164-167 without the decrement of line 165
ShiftedClassIndexNoDecrement(classindex, attr_count) ==
    IF classindex > 0 THEN classindex ELSE classindex + attr_count

\* lines 164-167
ShiftedClassIndex(classindex, attr_count) ==
    IF classindex > 0 THEN classindex - 1 ELSE classindex + attr_count

\* line 170
NominalDict(attrs) ==
    [k \in {m \in 0..(Len(attrs) - 1) : attrs[m + 1][2] = 2} |->
        nominal_to_numeric_dict(attrs[k + 1][3])]

ShiftClassIndex ==
    /\ pc = "shift" /\ error = NoError
    /\ LET classindex == ShiftedClassIndex(args.classindex, Len(attr_list))
       IN  /\ args' = [args EXCEPT !.classindex = classindex]
           /\ nominal_dict' = NominalDict(attr_list)
           /\ IF ~PyIndexOk(attr_list, classindex)
              THEN /\ pc' = pc
                   /\ error' = "IndexError"
                   /\ UNCHANGED <<class_list, class_dict>>
              ELSE /\ class_list' = PyGet(attr_list, classindex)[3]
                   /\ IF classindex \notin DOMAIN NominalDict(attr_list)
                      THEN /\ pc' = pc
                           /\ error' = "KeyError"
                           /\ UNCHANGED class_dict
                      ELSE /\ class_dict' = NominalDict(attr_list)[classindex]
                           /\ pc' = "read"
                           /\ error' = error
    /\ UNCHANGED <<argv, infile, data_seen, attr_list, relation, dev_sets, test_sets,
                   train_sets, inst_str_list, i, cur, set_index, todo, out, err>>

----------------------------------------------------------------------------
(* Reading and shuffling the instances (lines 174-185). *)

\* the orders random.shuffle can leave a list in
RECURSIVE Shuffles(_)
Shuffles(list) ==
    IF Len(list) = 0 THEN {<<>>}
    ELSE UNION {{<<list[k]>> \o rest :
                    rest \in Shuffles(SubSeq(list, 1, k - 1) \o SubSeq(list, k + 1, Len(list)))} :
                k \in 1..Len(list)}

\* lines 175-177
EmptySets(classes) == [k \in 1..Len(classes) |-> {}]

ReadInstances ==
    /\ pc = "read" /\ error = NoError
    /\ dev_sets' = EmptySets(class_list)
    /\ test_sets' = EmptySets(class_list)
    /\ train_sets' = EmptySets(class_list)
    /\ inst_str_list' \in (IF args.randomize THEN Shuffles(infile) ELSE {infile})
    /\ infile' = <<>>
    /\ i' = 0
    /\ pc' = "split"
    /\ UNCHANGED <<argv, args, data_seen, attr_list, relation, nominal_dict, class_list,
                   class_dict, cur, set_index, todo, out, err, error>>

----------------------------------------------------------------------------
(* The split into dev, test and training sets (lines 187-195). *)

\* the set of the class of code k gains the instance index
AddTo(sets, k, index) == [sets EXCEPT ![k + 1] = @ \cup {index}]

\* line 190
GoesToDev(sets, k, cap) == Cardinality(sets[k + 1]) < cap

\* line 192 with <= for <
GoesToTestInclusive(sets, k, cap) == Cardinality(sets[k + 1]) <= cap

\* line 192
GoesToTest(sets, k, cap) == Cardinality(sets[k + 1]) < cap

\* line 194 without its "not args.max"
GoesToTrainCapped(sets, k, cap) == Cardinality(sets[k + 1]) < cap

\* line 194
GoesToTrain(sets, k, cap) == cap = 0 \/ Cardinality(sets[k + 1]) < cap

\* the lookup of lines 190-195 as class_dict.get(..., 0)
ClassCodeOrZero(classes, instance, classindex) ==
    IF ~PyIndexOk(instance, classindex) THEN Raise("IndexError")
    ELSE IF PyGet(instance, classindex) \notin DOMAIN classes THEN Ok(0)
    ELSE Ok(classes[PyGet(instance, classindex)])

\* class_dict[instance[args.classindex]] of lines 190-195
ClassCode(classes, instance, classindex) ==
    IF ~PyIndexOk(instance, classindex) THEN Raise("IndexError")
    ELSE IF PyGet(instance, classindex) \notin DOMAIN classes THEN Raise("KeyError")
    ELSE Ok(classes[PyGet(instance, classindex)])

\* one pass of the loop of line 188, or its end
SplitInstance ==
    /\ pc = "split" /\ error = NoError
    /\ IF i >= Len(inst_str_list)
       THEN /\ pc' = "output"
            /\ cur' = "train"
            /\ set_index' = -1
            /\ todo' = {}
            /\ UNCHANGED <<dev_sets, test_sets, train_sets, i, error>>
       ELSE LET instance == inst_str_list[i + 1]
                code == ClassCode(class_dict, instance, args.classindex)
            IN  IF ~code.ok
                THEN /\ pc' = pc
                     /\ error' = code.exc
                     /\ UNCHANGED <<dev_sets, test_sets, train_sets, i, cur, set_index, todo>>
                ELSE LET k == code.val
                     IN  /\ IF GoesToDev(dev_sets, k, args.dev)
                            THEN /\ dev_sets' = AddTo(dev_sets, k, i)
                                 /\ UNCHANGED <<test_sets, train_sets>>
                            ELSE IF GoesToTest(test_sets, k, args.test)
                            THEN /\ test_sets' = AddTo(test_sets, k, i)
                                 /\ UNCHANGED <<dev_sets, train_sets>>
                            ELSE IF GoesToTrain(train_sets, k, args.max)
                            THEN /\ train_sets' = AddTo(train_sets, k, i)
                                 /\ UNCHANGED <<dev_sets, test_sets>>
                            ELSE UNCHANGED <<dev_sets, test_sets, train_sets>>
                         /\ i' = i + 1
                         /\ UNCHANGED <<pc, cur, set_index, todo, error>>
    /\ UNCHANGED <<argv, args, infile, data_seen, attr_list, relation, nominal_dict,
                   class_list, class_dict, inst_str_list, out, err>>

----------------------------------------------------------------------------
(* print_instance (lines 59-87). *)

\* the suffix argument left at its default None
NoSuffix == <<"None">>

\* the local clean_name before its first assignment
Unbound == <<"unbound">>

\* float(s) succeeds: digits with at most one point (the values hold no sign,
\* no exponent and no blank)
FloatOk(s) ==
    /\ \A k \in 1..Len(s) : s[k] \in DigitChars \cup {"."}
    /\ Count(s, ".") <= 1
    /\ \E k \in 1..Len(s) : s[k] \in DigitChars

\* bool(float(s))
FloatNonzero(s) == \E k \in 1..Len(s) : s[k] \in DigitChars \ {"0"}

\* one name and value printed; attr is the index of the attribute whose field
\* was printed
Pair(name, value, attr) == [kind |-> "pair", name |-> name, value |-> value, attr |-> attr]

\* line 65
IsKept(attr) ==
    /\ args.features = <<>> \/ (attr + 1) \in Range(args.features)
    /\ (attr + 1) \notin Range(args.superclasses)

\* line 72
IsBinary(attr) ==
    args.binary # <<>> /\ (args.binary = <<0>> \/ (attr + 1) \in Range(args.binary))

\* line 66
CleanName(attrs, suffix, attr) ==
    sanitize_name(IF suffix = NoSuffix THEN attrs[attr + 1][1]
                  ELSE <<"F">> \o IntToStr(attr + 1) \o suffix)

Printed(exc, stdout, stderr) == [exc |-> exc, stdout |-> stdout, stderr |-> stderr]

\* the loop of line 61 from attribute attr on; clean_name is the local of that
\* name, stdout and stderr what the call has printed so far
RECURSIVE PrintFrom(_, _, _, _, _, _, _, _)
PrintFrom(instance, nominals, attrs, suffix, attr, clean_name, stdout, stderr) ==
    IF attr >= Len(instance) THEN Printed(NoError, stdout, stderr)
    ELSE IF attr = args.classindex
    THEN PrintFrom(instance, nominals, attrs, suffix, attr + 1, clean_name, stdout, stderr)
    ELSE IF IsKept(attr)
    THEN IF attr >= Len(attrs) THEN Printed("IndexError", stdout, stderr)
         ELSE LET name == CleanName(attrs, suffix, attr)
                  value == instance[attr + 1]
              IN  IF attrs[attr + 1][2] = 1
                  THEN IF ~FloatOk(value) THEN Printed("ValueError", stdout, stderr)
                       ELSE IF FloatNonzero(value)
                       THEN IF IsBinary(attr)
                            THEN PrintFrom(instance, nominals, attrs, suffix, attr + 1, name,
                                     stdout \o <<Pair(name, <<"1">>, attr)>>
                                            \o (IF args.doubleup THEN <<Pair(name, value, attr)>>
                                                ELSE <<>>),
                                     stderr)
                            ELSE PrintFrom(instance, nominals, attrs, suffix, attr + 1, name,
                                     Append(stdout, Pair(name, value, attr)), stderr)
                       ELSE PrintFrom(instance, nominals, attrs, suffix, attr + 1, name,
                                stdout, stderr)
                  ELSE IF attr \in DOMAIN nominals
                  THEN IF value \notin DOMAIN nominals[attr]
                       THEN Printed("KeyError", stdout, stderr)
                       ELSE PrintFrom(instance, nominals, attrs, suffix, attr + 1, name,
                                Append(stdout, Pair(name, IntToStr(nominals[attr][value]), attr)),
                                stderr)
                  ELSE IF args.verbose
                  THEN PrintFrom(instance, nominals, attrs, suffix, attr + 1, name,
                           stdout, Append(stderr, Pair(name, value, attr)))
                  ELSE PrintFrom(instance, nominals, attrs, suffix, attr + 1, name,
                           stdout, stderr)
    ELSE IF args.verbose
    THEN IF clean_name = Unbound THEN Printed("UnboundLocalError", stdout, stderr)
         ELSE PrintFrom(instance, nominals, attrs, suffix, attr + 1, clean_name,
                  stdout, Append(stderr, Pair(clean_name, instance[attr + 1], attr)))
    ELSE PrintFrom(instance, nominals, attrs, suffix, attr + 1, clean_name, stdout, stderr)

print_instance(instance, nominals, attrs, suffix) ==
    PrintFrom(instance, nominals, attrs, suffix, 0, Unbound, <<>>, <<>>)

----------------------------------------------------------------------------
(* process_set (lines 90-107). *)

\* what one call of print_instance printed, marked with the hypothesised class
\* (block, its 0-based position in the class list) and the call within the
\* block (0 for the call of line 101, j for the j-th superclass of line 102)
Tagged(pairs, block, call) ==
    [k \in 1..Len(pairs) |-> [kind |-> "pair", name |-> pairs[k].name,
                               value |-> pairs[k].value, attr |-> pairs[k].attr,
                               block |-> block, call |-> call]]

\* line 100
Hash(block) ==
    [kind |-> "hash", name |-> <<"#">>, value |-> <<>>, attr |-> -1,
     block |-> block, call |-> -1]

\* the line print_instance writes to standard error (lines 86-87)
ErrLine(pairs, block, call) == [pairs |-> pairs, block |-> block, call |-> call]

VerboseLines(pairs, block, call) ==
    IF args.verbose THEN <<ErrLine(pairs, block, call)>> ELSE <<>>

Processed(exc, items, lines) == [exc |-> exc, items |-> items, lines |-> lines]

\* line 101
ClassSuffix(class_name) == <<" ">> \o class_name

\* line 103
SuperclassSuffix(instance, attrs, superclass_feat) ==
    <<" ">> \o PyGet(attrs, superclass_feat - 1)[1] \o <<" ">> \o PyGet(instance, superclass_feat - 1)

\* line 103 printing one pair, named by the superclass and its value
SuperclassCallOnePair(instance, nominals, attrs, superclass_feat) ==
    Printed(NoError,
            <<Pair(sanitize_name(PyGet(attrs, superclass_feat - 1)[1] \o <<" ">>
                                 \o PyGet(instance, superclass_feat - 1)),
                   <<"1">>, superclass_feat - 1)>>,
            <<>>)

\* line 103: the call made for one superclass
SuperclassCall(instance, nominals, attrs, superclass_feat) ==
    print_instance(instance, nominals, attrs, SuperclassSuffix(instance, attrs, superclass_feat))

\* lines 99-103, from the class at position block and the call `call` on
RECURSIVE ExplicitFrom(_, _, _, _, _, _, _)
ExplicitFrom(instance, nominals, attrs, block, call, items, lines) ==
    LET class_names == attrs[args.classindex + 1][3]
    IN  IF block >= Len(class_names) THEN Processed(NoError, items, lines)
        ELSE IF call = 0
        THEN LET printed == print_instance(instance, nominals, attrs,
                                           ClassSuffix(class_names[block + 1]))
                 items1 == Append(items, Hash(block)) \o Tagged(printed.stdout, block, 0)
                 lines1 == lines \o VerboseLines(printed.stderr, block, 0)
             IN  IF printed.exc # NoError THEN Processed(printed.exc, items1, lines1)
                 ELSE ExplicitFrom(instance, nominals, attrs, block, 1, items1, lines1)
        ELSE IF call > Len(args.superclasses)
        THEN ExplicitFrom(instance, nominals, attrs, block + 1, 0, items, lines)
        ELSE LET superclass_feat == args.superclasses[call]
             IN  IF ~PyIndexOk(attrs, superclass_feat - 1)
                    \/ ~PyIndexOk(instance, superclass_feat - 1)
                 THEN Processed("IndexError", items, lines)
                 ELSE LET printed == SuperclassCall(instance, nominals, attrs, superclass_feat)
                          items1 == items \o Tagged(printed.stdout, block, call)
                          lines1 == lines \o VerboseLines(printed.stderr, block, call)
                      IN  IF printed.exc # NoError
                          THEN Processed(printed.exc, items1, lines1)
                          ELSE ExplicitFrom(instance, nominals, attrs, block, call + 1,
                                            items1, lines1)

\* line 106
Implicit(instance, nominals, attrs) ==
    LET printed == print_instance(instance, nominals, attrs, NoSuffix)
    IN  Processed(printed.exc, Tagged(printed.stdout, 0, 0),
                  VerboseLines(printed.stderr, 0, 0))

\* line 96: the class label and the tab after it
ClassToken(instance, nominals) ==
    (IF args.namedclasses THEN sanitize_name(instance[args.classindex + 1])
     ELSE IntToStr(nominals[args.classindex][instance[args.classindex + 1]])) \o <<"\t">>

\* lines 97-106 for one instance
Features(instance, nominals, attrs) ==
    IF args.superclasses # <<>>
    THEN ExplicitFrom(instance, nominals, attrs, 0, 0, <<>>, <<>>)
    ELSE Implicit(instance, nominals, attrs)

\* an entry of standard output: the record of an instance, marked with the
\* index of the instance; complete when line 107 ended it
Record(text, items, inst_index, complete) ==
    [kind |-> "record", text |-> text, items |-> items, inst |-> inst_index,
     complete |-> complete]

S_DEV == <<"D", "E", "V">>
S_TEST == <<"T", "E", "S", "T">>

\* the lines written to standard error for an instance, marked with its index
Stderr(lines, inst_index) ==
    [k \in 1..Len(lines) |-> [pairs |-> lines[k].pairs, block |-> lines[k].block,
                               call |-> lines[k].call, inst |-> inst_index]]

\* lines 203 and 209
Marker(text) ==
    [kind |-> "marker", text |-> text, items |-> <<>>, inst |-> -1, complete |-> TRUE]

\* one pass of the loop of line 94; a set is iterated in an order of its own
ProcessSet ==
    /\ pc = "output" /\ error = NoError
    /\ \E inst_index \in todo :
         LET instance == inst_str_list[inst_index + 1]
             processed == Features(instance, nominal_dict, attr_list)
         IN  /\ todo' = todo \ {inst_index}
             /\ err' = err \o Stderr(processed.lines, inst_index)
             /\ out' = Append(out, Record(ClassToken(instance, nominal_dict), processed.items,
                                          inst_index, processed.exc = NoError))
             /\ IF processed.exc = NoError
                THEN UNCHANGED <<pc, error>>
                ELSE pc' = pc /\ error' = processed.exc
    /\ UNCHANGED <<argv, args, infile, data_seen, attr_list, relation, nominal_dict,
                   class_list, class_dict, dev_sets, test_sets, train_sets,
                   inst_str_list, i, cur, set_index>>

----------------------------------------------------------------------------
(* The order of the output (lines 197-211). *)

Family(name) ==
    IF name = "train" THEN train_sets ELSE IF name = "dev" THEN dev_sets ELSE test_sets

\* lines 202 and 208 without the test of args.dev
NextFamilyAlwaysDev(name) ==
    IF name = "train" THEN "dev"
    ELSE IF name = "dev" /\ args.test # 0 THEN "test"
    ELSE "done"

\* the family written after `name`, or "done": lines 202 and 208
NextFamily(name) ==
    IF name = "train" /\ args.dev # 0 THEN "dev"
    ELSE IF name \in {"train", "dev"} /\ args.test # 0 THEN "test"
    ELSE "done"

\* lines 203 and 209 with TEST printed in both places
MarkerOfAlwaysTest(name) == Marker(S_TEST)

MarkerOf(name) == IF name = "dev" THEN Marker(S_DEV) ELSE Marker(S_TEST)

\* the loops of lines 198, 204 and 210 take their next set, or end
NextSet ==
    /\ pc = "output" /\ error = NoError
    /\ todo = {}
    /\ IF set_index + 1 < Len(Family(cur))
       THEN /\ set_index' = set_index + 1
            /\ todo' = Family(cur)[set_index + 2]
            /\ UNCHANGED <<pc, cur, out>>
       ELSE IF NextFamily(cur) = "done"
       THEN /\ pc' = "done"
            /\ UNCHANGED <<cur, set_index, todo, out>>
       ELSE /\ out' = Append(out, MarkerOf(NextFamily(cur)))
            /\ cur' = NextFamily(cur)
            /\ set_index' = -1
            /\ todo' = {}
            /\ pc' = pc
    /\ UNCHANGED <<argv, args, infile, data_seen, attr_list, relation, nominal_dict,
                   class_list, class_dict, dev_sets, test_sets, train_sets,
                   inst_str_list, i, err, error>>

----------------------------------------------------------------------------
(* The script and the inputs it is run on. *)

Next ==
    \/ ParseArgs
    \/ CheckClassIndex
    \/ ProcessHeader
    \/ ShiftClassIndex
    \/ ReadInstances
    \/ SplitInstance
    \/ ProcessSet
    \/ NextSet

\* the command line without any option: the defaults of lines 116-135
DefaultArgv ==
    [binary |-> NotGiven, doubleup |-> FALSE, classindex |-> -1, dev |-> 0,
     features |-> NotGiven, max |-> 0, namedclasses |-> FALSE, randomize |-> FALSE,
     superclasses |-> NotGiven, test |-> 0, verbose |-> FALSE]

\* args before parse_args has run (None, line 15), held as the parsed defaults
NoArgs ==
    [binary |-> <<>>, doubleup |-> FALSE, classindex |-> -1, dev |-> 0,
     features |-> <<>>, max |-> 0, namedclasses |-> FALSE, randomize |-> FALSE,
     superclasses |-> <<>>, test |-> 0, verbose |-> FALSE]

\* the start of the script on one of the command lines and one of the files
InitOn(argvs, files) ==
    /\ pc = "parse_args"
    /\ argv \in argvs
    /\ infile \in files
    /\ args = NoArgs
    /\ data_seen = FALSE
    /\ attr_list = <<>>
    /\ relation = <<>>
    /\ nominal_dict = <<>>
    /\ class_list = <<>>
    /\ class_dict = <<>>
    /\ dev_sets = <<>>
    /\ test_sets = <<>>
    /\ train_sets = <<>>
    /\ inst_str_list = <<>>
    /\ i = 0
    /\ cur = "train"
    /\ set_index = -1
    /\ todo = {}
    /\ out = <<>>
    /\ err = <<>>
    /\ error = NoError

AttributeLine(name, type) == <<S_attribute, name, type>>
DataLine == <<S_data>>

\* the type {a,b}
T_ab == <<"{", "a", ",", "b", "}">>

(* Partition runs: one nominal attribute, the class, with values a and b; up
   to MaxRowsPart rows; every cap from 0 to MaxCapPart. *)

ArgvPart ==
    {[DefaultArgv EXCEPT !.dev = d, !.test = t, !.max = m, !.randomize = r] :
        d \in 0..MaxCapPart, t \in 0..MaxCapPart, m \in 0..MaxCapPart, r \in BOOLEAN}

FilesPart ==
    {<<AttributeLine(<<"c">>, T_ab), DataLine>> \o rows :
        rows \in SeqsUpTo({<<<<"a">>>>, <<<<"b">>>>}, MaxRowsPart)}

InitPart == InitOn(ArgvPart, FilesPart)

SpecPart == InitPart /\ [][Next]_vars

(* Whole runs: a numeric attribute and the class; up to MaxRows rows, some
   with the undeclared class value z; every cap from 0 to MaxCap. *)

ArgvRun ==
    {[DefaultArgv EXCEPT !.dev = d, !.test = t, !.max = m, !.randomize = r] :
        d \in 0..MaxCap, t \in 0..MaxCap, m \in 0..MaxCap, r \in BOOLEAN}

RowsRun == {<<<<"1">>, <<"a">>>>, <<<<"0">>, <<"b">>>>, <<<<"2">>, <<"z">>>>}

FilesRun ==
    {<<AttributeLine(<<"x">>, S_numeric), AttributeLine(<<"c">>, T_ab), DataLine>> \o rows :
        rows \in SeqsUpTo(RowsRun, MaxRows)}

Init == InitOn(ArgvRun, FilesRun)

Spec == Init /\ [][Next]_vars

(* Header runs: up to MaxAttrs attributes of every type spelling, a class
   index from -(MaxAttrs + 1) to MaxAttrs + 1, files with and without @data. *)

S_NUMERIC == <<"N", "U", "M", "E", "R", "I", "C">>
S_string == <<"s", "t", "r", "i", "n", "g">>

AttrTypes == {S_numeric, S_NUMERIC, S_string, T_ab}

\* the name of the k-th attribute of a header file
AttrName(k) == <<"f">> \o IntToStr(k)

\* a field that suits an attribute of the type
FieldFor(type) == IF type = T_ab THEN <<"a">> ELSE IF type = S_string THEN <<"s">> ELSE <<"1">>

HeaderLines(types) == [k \in 1..Len(types) |-> AttributeLine(AttrName(k), types[k])]

RowFor(types) == [k \in 1..Len(types) |-> FieldFor(types[k])]

\* a blank line, an @RELATION line and a comment line
Preamble == <<<<>>, <<<<"@", "R", "E", "L", "A", "T", "I", "O", "N">>, <<"r">>>>, <<<<"%">>>>>>

\* what follows the attributes: nothing, @data alone, @DATA and one row
Endings(types) == {<<>>, <<DataLine>>, <<<<<<"@", "D", "A", "T", "A">>>>, RowFor(types)>>}

FilesHeader ==
    UNION {{pre \o HeaderLines(types) \o ending :
                pre \in {<<>>, Preamble}, ending \in Endings(types)} :
           types \in SeqsUpTo(AttrTypes, MaxAttrs)}

ArgvHeader ==
    {[DefaultArgv EXCEPT !.classindex = c, !.dev = d, !.test = d] :
        c \in (-(MaxAttrs + 1))..(MaxAttrs + 1), d \in 0..1}

InitHeader == InitOn(ArgvHeader, FilesHeader)

SpecHeader == InitHeader /\ [][Next]_vars

(* Range runs: every string of at most MaxLen characters among 1, 2, the
   comma and the dash as the value of --features; one file of two numeric
   attributes and the class. *)

RangeChars == {"1", "2", ",", "-"}

ArgvRange ==
    {DefaultArgv} \cup
    {[DefaultArgv EXCEPT !.features = Given(str)] : str \in SeqsUpTo(RangeChars, MaxLen)}

FilesRange ==
    {<<AttributeLine(<<"x">>, S_numeric), AttributeLine(<<"y">>, S_numeric),
       AttributeLine(<<"c">>, T_ab), DataLine,
       <<<<"1">>, <<"2">>, <<"a">>>>, <<<<"0">>, <<"1">>, <<"b">>>>>>}

InitRange == InitOn(ArgvRange, FilesRange)

SpecRange == InitRange /\ [][Next]_vars

(* Feature runs: a numeric attribute, a numeric or string attribute, the
   nominal attribute s and the class with values cat and dog; up to
   MaxRowsEmit rows; feature, superclass and binary selectors, verbose,
   doubleup and named classes on and off. *)

S_cat == <<"c", "a", "t">>
S_dog == <<"d", "o", "g">>
T_catdog == <<"{">> \o S_cat \o <<",">> \o S_dog \o <<"}">>
T_pq == <<"{", "p", ",", "q", "}">>

ArgvEmit ==
    {[DefaultArgv EXCEPT !.superclasses = s, !.features = f, !.binary = b,
                         !.verbose = v, !.doubleup = d, !.namedclasses = n] :
        s \in {NotGiven, Given(<<"3">>), Given(<<"2", ",", "3">>)},
        f \in {NotGiven, Given(<<"1">>), Given(<<"2">>)},
        b \in {NotGiven, Given(<<"0">>)},
        v \in BOOLEAN, d \in BOOLEAN, n \in BOOLEAN}

RowsEmit ==
    {<<v1, <<"5">>, <<"p">>, class>> : v1 \in {<<"0">>, <<"3">>}, class \in {S_cat, S_dog}}

FilesEmit ==
    {<<AttributeLine(<<"x">>, S_numeric), AttributeLine(<<"y", "#">>, type),
       AttributeLine(<<"s">>, T_pq), AttributeLine(<<"c">>, T_catdog), DataLine>> \o rows :
        type \in {S_numeric, S_string}, rows \in SeqsUpTo(RowsEmit, MaxRowsEmit)}

InitEmit == InitOn(ArgvEmit, FilesEmit)

SpecEmit == InitEmit /\ [][Next]_vars

----------------------------------------------------------------------------
(* The split into sets. *)

Families == {"dev", "test", "train"}

\* the instances the loop of line 188 has passed
Scanned == IF pc = "split" THEN i ELSE Len(inst_str_list)

SplitStarted == pc \in {"split", "output", "done"}

ScanComplete == pc \in {"output", "done"}

\* the sets that hold the instance index, each as <<family, class code>>
Homes(index) ==
    {h \in Families \X (0..(Len(class_list) - 1)) : index \in Family(h[1])[h[2] + 1]}

\* the class code of the instance
CodeOf(index) == class_dict[PyGet(inst_str_list[index + 1], args.classindex)]

\* C1: an instance index is a member of at most one set among all dev, test and
\* train sets, only of a set of its own class, and of exactly one set when
\* --max is 0; no set holds an index the scan has not reached.
C1_OneSetPerInstance ==
    SplitStarted =>
        /\ \A index \in 0..(Scanned - 1) :
             /\ Cardinality(Homes(index)) <= 1
             /\ \A h \in Homes(index) : h[2] = CodeOf(index)
             /\ args.max = 0 => Cardinality(Homes(index)) = 1
        /\ \A f \in Families : \A k \in 1..Len(class_list) :
             Family(f)[k] \subseteq 0..(Scanned - 1)

\* a finished scan with a cap on training that left instances in dev, in test
\* and in train, and dropped one
C1_Witness ==
    /\ ScanComplete
    /\ args.max > 0
    /\ \E index \in 0..(Len(inst_str_list) - 1) : Homes(index) = {}
    /\ \A f \in Families : \E k \in 1..Len(class_list) : Family(f)[k] # {}

\* the instances of the class of code k
InstancesOf(k) == {index \in 0..(Len(inst_str_list) - 1) : CodeOf(index) = k}

\* how many instances of its own class come before the instance
Before(index) == Cardinality({j \in InstancesOf(CodeOf(index)) : j < index})

\* C2: without shuffling, the first --dev instances of a class in input order
\* are in its dev set, the next --test in its test set, and the following ones
\* in its train set: all of them when --max is 0, the next --max otherwise.
C2_CapsInInputOrder ==
    (ScanComplete /\ ~args.randomize) =>
        \A index \in 0..(Len(inst_str_list) - 1) :
            LET k == CodeOf(index)
                n == Before(index)
            IN  /\ index \in dev_sets[k + 1] <=> n < args.dev
                /\ index \in test_sets[k + 1] <=>
                       (args.dev <= n /\ n < args.dev + args.test)
                /\ index \in train_sets[k + 1] <=>
                       /\ args.dev + args.test <= n
                       /\ args.max = 0 \/ n < args.dev + args.test + args.max

\* five instances of one class with --dev 2 --test 1 --max 0
C2_Witness ==
    /\ pc = "done"
    /\ ~args.randomize /\ args.dev = 2 /\ args.test = 1 /\ args.max = 0
    /\ Len(inst_str_list) = 5
    /\ dev_sets[1] = {0, 1} /\ test_sets[1] = {2} /\ train_sets[1] = {3, 4}

----------------------------------------------------------------------------
(* The order of the output. *)

Members(sets) == UNION Range(sets)

\* the place of an entry in the order train records, DEV, dev records, TEST,
\* test records
Place(entry) ==
    IF entry.kind = "marker" THEN (IF entry.text = S_DEV THEN 1 ELSE 3)
    ELSE IF entry.inst \in Members(train_sets) THEN 0
    ELSE IF entry.inst \in Members(dev_sets) THEN 2
    ELSE 4

MarkerCount(text) ==
    Cardinality({p \in 1..Len(out) : out[p].kind = "marker" /\ out[p].text = text})

RecordsOf(index) == {p \in 1..Len(out) : out[p].kind = "record" /\ out[p].inst = index}

\* C3: the output is the train records, then DEV and the dev records, then
\* TEST and the test records; within a split the records of a class come
\* before those of the class of the next code; DEV (TEST) is never printed
\* twice, never printed when --dev (--test) is 0, and printed once in a run
\* that ends normally with --dev (--test) not 0; such a run has written every
\* instance of the sets once.
C3_OutputOrder ==
    /\ \A p, q \in 1..Len(out) :
         p < q =>
            /\ Place(out[p]) <= Place(out[q])
            /\ (out[p].kind = "record" /\ out[q].kind = "record"
                    /\ Place(out[p]) = Place(out[q]))
                   => CodeOf(out[p].inst) <= CodeOf(out[q].inst)
    /\ MarkerCount(S_DEV) <= 1 /\ MarkerCount(S_TEST) <= 1
    /\ args.dev = 0 => MarkerCount(S_DEV) = 0
    /\ args.test = 0 => MarkerCount(S_TEST) = 0
    /\ pc = "done" =>
         /\ args.dev # 0 => MarkerCount(S_DEV) = 1
         /\ args.test # 0 => MarkerCount(S_TEST) = 1
         /\ \A index \in 0..(Len(inst_str_list) - 1) :
              Cardinality(RecordsOf(index)) = (IF Homes(index) = {} THEN 0 ELSE 1)

\* a finished run that wrote a train record, DEV, a dev record of each class,
\* TEST and a test record
C3_Witness ==
    /\ pc = "done"
    /\ Len(out) = 6
    /\ out[1].kind = "record"
    /\ out[2] = Marker(S_DEV)
    /\ out[3].kind = "record" /\ out[4].kind = "record"
    /\ CodeOf(out[3].inst) = 0 /\ CodeOf(out[4].inst) = 1
    /\ out[5] = Marker(S_TEST)
    /\ out[6].kind = "record"

----------------------------------------------------------------------------
(* Rows of an undeclared class. *)

\* the rows whose class field is no declared value of the class attribute
Undeclared ==
    {index \in 0..(Len(inst_str_list) - 1) :
        PyGet(inst_str_list[index + 1], args.classindex) \notin DOMAIN class_dict}

\* C6: with a row of an undeclared class anywhere in the data, the run never
\* gets past the split loop and nothing is ever written: the loop stops with
\* a KeyError at the first such row.
C6_NoOutputOnUndeclaredClass ==
    (SplitStarted /\ Undeclared # {}) =>
        /\ pc = "split"
        /\ out = <<>>
        /\ \A index \in Undeclared : i <= index
        /\ error \in {NoError, "KeyError"}
        /\ error = "KeyError" => i \in Undeclared

\* the run has stopped at an undeclared class in the third row, after two rows
\* were put into sets
C6_Witness ==
    /\ pc = "split" /\ error = "KeyError"
    /\ i = 2 /\ Undeclared = {2}
    /\ out = <<>>
    /\ Members(dev_sets) \cup Members(test_sets) \cup Members(train_sets) = {0, 1}

----------------------------------------------------------------------------
(* The empty range string. *)

ParseArgsDone == pc # "parse_args" \/ error # NoError

\* C4: parse_num_list("") succeeds and returns the empty list: with --features
\* given as the empty string, parse_args ends without error and args.features
\* is [].
C4_EmptyRangeIsEmptyList ==
    (ParseArgsDone /\ argv.features = Given(<<>>)) =>
        (error = NoError /\ args.features = <<>>)

----------------------------------------------------------------------------
(* A header without @data. *)

HeaderDone == pc \in {"shift", "read", "split", "output", "done"}

PastShift == pc \in {"read", "split", "output", "done"}

\* the markers the options ask for
RequestedMarkers ==
    (IF args.dev # 0 THEN <<Marker(S_DEV)>> ELSE <<>>)
        \o (IF args.test # 0 THEN <<Marker(S_TEST)>> ELSE <<>>)

\* C5 as stated: an input that ends without an @data line ends the run in a
\* fatal error; the run never ends normally.
C5_NoDataIsFatal == pc = "done" => data_seen

\* C5: after an input that ended without an @data line the instance list is
\* empty and no record is ever written; the run goes on only when the class
\* index names a nominal attribute, and then ends normally with the requested
\* markers as its whole output; otherwise it stops at lines 171-172.
C5_NoDataNoRecords ==
    (HeaderDone /\ ~data_seen) =>
        /\ infile = <<>> /\ inst_str_list = <<>>
        /\ \A p \in 1..Len(out) : out[p].kind = "marker"
        /\ PastShift =>
             /\ 0 <= args.classindex /\ args.classindex < Len(attr_list)
             /\ attr_list[args.classindex + 1][2] = 2
        /\ pc = "done" => out = RequestedMarkers
        /\ error # NoError => (pc = "shift" /\ error \in {"IndexError", "KeyError"})

\* a run on a header without @data that ended normally, having written DEV and TEST
C5_Witness ==
    /\ pc = "done" /\ error = NoError
    /\ ~data_seen
    /\ Len(attr_list) = 2
    /\ out = <<Marker(S_DEV), Marker(S_TEST)>>

----------------------------------------------------------------------------
(* The class index. *)

ShiftDone == PastShift \/ (pc = "shift" /\ error # NoError)

\* the index the claim gives for the configured index c and n attributes
Resolved(c, n) == IF c > 0 THEN c - 1 ELSE n + c

\* C8 as stated: for every nonzero configured class index the resolved index is
\* c - 1 or n + c and names an attribute of the list.
C8_ResolvedIndexInList ==
    (ShiftDone /\ Len(attr_list) >= 1) =>
        /\ args.classindex = Resolved(argv.classindex, Len(attr_list))
        /\ 0 <= args.classindex /\ args.classindex < Len(attr_list)

\* C8: the resolved index is c - 1 for c > 0 and n + c for c < 0; it names an
\* attribute of the list when -n <= c <= n, and in every run that gets past
\* lines 171-172, where it names a nominal attribute; a configured index
\* outside -n..n resolves outside the list and the run stops at lines 171-172
\* with an IndexError or a KeyError.
C8_ResolvedIndex ==
    (ShiftDone /\ Len(attr_list) >= 1) =>
        LET c == argv.classindex
            n == Len(attr_list)
        IN  /\ c # 0
            /\ args.classindex = Resolved(c, n)
            /\ (-n <= c /\ c <= n) => (0 <= args.classindex /\ args.classindex < n)
            /\ (c < -n \/ c > n) =>
                   /\ args.classindex < 0 \/ args.classindex >= n
                   /\ pc = "shift" /\ error \in {"IndexError", "KeyError"}
            /\ PastShift =>
                   /\ 0 <= args.classindex /\ args.classindex < n
                   /\ attr_list[args.classindex + 1][2] = 2

\* three attributes and the class index -1: the resolved index is 2
C8_Witness ==
    /\ pc = "read"
    /\ Len(attr_list) = 3
    /\ argv.classindex = -1
    /\ args.classindex = 2

----------------------------------------------------------------------------
(* The spelling of numeric. *)

\* the loop of line 145 is about to read an @attribute line whose type is
\* numeric in some spelling
ReadsNumericAttribute ==
    /\ pc = "header" /\ error = NoError
    /\ infile # <<>>
    /\ ~IsBlank(Head(infile))
    /\ Lower(Head(infile)[1]) = S_attribute
    /\ AttributeLineOk(Head(infile))
    /\ Lower(Head(infile)[3]) = S_numeric

\* C10: an @attribute line whose type equals numeric without regard to case
\* appends an attribute of kind 1 (numeric).
C10_NumericAnyCase ==
    [][ReadsNumericAttribute =>
           attr_list' = Append(attr_list, <<Head(infile)[2], 1, <<>>>>)]_vars

----------------------------------------------------------------------------
(* The names and the blocks of a record. *)

\* the suffix of the names printed by the call `call` of the block `block`:
\* none in implicit format, the hypothesised class for call 0, the name of the
\* superclass attribute and the instance's value of it for the call of a
\* superclass
SuffixOf(instance, block, call) ==
    IF args.superclasses = <<>> THEN NoSuffix
    ELSE IF call = 0 THEN <<" ">> \o class_list[block + 1]
    ELSE <<" ">> \o attr_list[args.superclasses[call]][1]
             \o <<" ">> \o instance[args.superclasses[call]]

\* the name of the attribute in that call: its own name, or F and its 1-based
\* index with the suffix
NameOf(instance, attr, block, call) ==
    sanitize_name(IF args.superclasses = <<>> THEN attr_list[attr + 1][1]
                  ELSE <<"F">> \o IntToStr(attr + 1) \o SuffixOf(instance, block, call))

\* the name and value pairs an ordinary attribute yields
OrdinaryPairs(instance, attr, block, call) ==
    LET name == NameOf(instance, attr, block, call)
        value == instance[attr + 1]
    IN  IF attr_list[attr + 1][2] = 1
        THEN IF ~FloatNonzero(value) THEN <<>>
             ELSE IF IsBinary(attr)
             THEN <<<<name, <<"1">>>>>> \o (IF args.doubleup THEN <<<<name, value>>>> ELSE <<>>)
             ELSE <<<<name, value>>>>
        ELSE IF attr_list[attr + 1][2] = 2
        THEN <<<<name, IntToStr(nominal_dict[attr][value])>>>>
        ELSE <<>>

\* the ordinary features of the instance from attribute attr on: those of the
\* attributes that are not the class, are selected and are no superclass
RECURSIVE OrdinaryFrom(_, _, _, _)
OrdinaryFrom(instance, attr, block, call) ==
    IF attr >= Len(instance) THEN <<>>
    ELSE (IF attr # args.classindex /\ IsKept(attr)
          THEN OrdinaryPairs(instance, attr, block, call) ELSE <<>>)
         \o OrdinaryFrom(instance, attr + 1, block, call)

OrdinaryFeatures(instance, block, call) == OrdinaryFrom(instance, 0, block, call)

\* the ordinary features once for the class and once for each superclass up to
\* the call `call`
RECURSIVE CopiesUpTo(_, _, _)
CopiesUpTo(instance, block, call) ==
    IF call < 0 THEN <<>>
    ELSE CopiesUpTo(instance, block, call - 1) \o OrdinaryFeatures(instance, block, call)

NamesAndValues(items) == [k \in 1..Len(items) |-> <<items[k].name, items[k].value>>]

BlockOf(entry, block) == SelectSeq(entry.items, LAMBDA item : item.block = block)

CompleteRecords == {p \in 1..Len(out) : out[p].kind = "record" /\ out[p].complete}

\* one # per declared class value, in declared order, each opening its block
HashPerClass(entry) ==
    /\ \A j, k \in 1..Len(entry.items) : j < k => entry.items[j].block <= entry.items[k].block
    /\ \A b \in 0..(Len(class_list) - 1) :
         /\ BlockOf(entry, b) # <<>>
         /\ BlockOf(entry, b)[1].kind = "hash"
         /\ \A k \in 2..Len(BlockOf(entry, b)) : BlockOf(entry, b)[k].kind = "pair"
    /\ \A k \in 1..Len(entry.items) : entry.items[k].block \in 0..(Len(class_list) - 1)

\* C7 as stated: in explicit format a record holds one # block per declared
\* class value, in declared order, and a block holds the ordinary features
\* suffixed with the hypothesised class and then exactly one feature per
\* superclass index.
C7_OneFeaturePerSuperclass ==
    args.superclasses # <<>> =>
        \A p \in CompleteRecords :
            LET instance == inst_str_list[out[p].inst + 1]
            IN  /\ HashPerClass(out[p])
                /\ \A b \in 0..(Len(class_list) - 1) :
                     LET pairs == NamesAndValues(Tail(BlockOf(out[p], b)))
                         ordinary == OrdinaryFeatures(instance, b, 0)
                     IN  /\ Len(pairs) = Len(ordinary) + Len(args.superclasses)
                         /\ SubSeq(pairs, 1, Len(ordinary)) = ordinary

\* C7: in explicit format a record holds one # block per declared class value,
\* in declared order, and a block holds the ordinary features named F<index>
\* and suffixed with the hypothesised class, then for each superclass index in
\* turn all the ordinary features again, named F<index> and suffixed with the
\* name of the superclass attribute and the instance's value of it.
C7_FeatureCopyPerSuperclass ==
    args.superclasses # <<>> =>
        \A p \in CompleteRecords :
            LET instance == inst_str_list[out[p].inst + 1]
            IN  /\ HashPerClass(out[p])
                /\ \A b \in 0..(Len(class_list) - 1) :
                     NamesAndValues(Tail(BlockOf(out[p], b)))
                         = CopiesUpTo(instance, b, Len(args.superclasses))

\* a record of two blocks for cat and dog with one superclass and two ordinary
\* features: four pairs in each block
C7_Witness ==
    /\ args.superclasses = <<3>>
    /\ class_list = <<S_cat, S_dog>>
    /\ \E p \in CompleteRecords :
         /\ Len(BlockOf(out[p], 0)) = 5
         /\ Len(BlockOf(out[p], 1)) = 5
         /\ Len(OrdinaryFeatures(inst_str_list[out[p].inst + 1], 0, 0)) = 2

----------------------------------------------------------------------------
(* The verbose lines. *)

\* the attributes that never reach standard output: not selected, a
\* superclass, or neither numeric nor nominal
ExcludedAttrs(instance) ==
    {attr \in 0..(Len(instance) - 1) :
        /\ attr # args.classindex
        /\ ~IsKept(attr) \/ attr_list[attr + 1][2] \notin {1, 2}}

\* C9: in verbose mode every excluded attribute of a written instance is on the
\* line of standard error under its own sanitised name with its own value, and
\* writing the line never fails.
C9_ExcludedUnderOwnName ==
    args.verbose =>
        /\ error # "UnboundLocalError"
        /\ \A l \in 1..Len(err) :
             LET instance == inst_str_list[err[l].inst + 1]
                 pairs == err[l].pairs
             IN  /\ {pairs[k].attr : k \in 1..Len(pairs)} = ExcludedAttrs(instance)
                 /\ \A k \in 1..Len(pairs) :
                      /\ pairs[k].name = NameOf(instance, pairs[k].attr, err[l].block, err[l].call)
                      /\ pairs[k].value = instance[pairs[k].attr + 1]

====
